---- MODULE Spec2Model ----
(***************************************************************************)
(* Model of uf, a file opener: src/cli.rs (argument handling and the run   *)
(* pipeline), src/config.rs (the rule language, its parser and the         *)
(* resolution of a file to a program), src/mime.rs (the detected MIME      *)
(* type) and src/lib.rs (the exit status).                                 *)
(*                                                                         *)
(* Text is modelled as a sequence of characters, each character a          *)
(* one-element string; "U+00E9" and "U+00C9" stand for the two non-ASCII   *)
(* letters e-acute and E-acute.  An anyhow error is the sequence of its    *)
(* messages, outermost context first; a message is its format together     *)
(* with the numbers and the texts substituted into it.                     *)
(***************************************************************************)
EXTENDS Integers, Sequences, FiniteSets, TLC

VARIABLES
    pc,          \* where the invocation is: "start", "parsed", "loaded", "resolved", "returned", "replaced", "exited"; "call" and "return" for a function under test
    argv,        \* env::args_os(): the arguments, argv[1] the program name
    cli,         \* the Cli value returned by Cli::parse
    stdout,      \* what was written to standard output, in order
    stderr,      \* what was written to standard error, in order
    exitCode,    \* the exit status of the process, None while it runs
    configText,  \* the items BufRead::lines yielded for the config file
    loadResult,  \* the value of Config::load()
    detectOut,   \* what the 'file' command did when MimeType::detect ran it
    getResult,   \* the value of Config::get_program()
    runResult,   \* the value of Cli::run()
    trace,       \* the external steps taken so far, in order
    call,        \* the arguments of the function under test
    ret          \* its return value

vars == <<pc, argv, cli, stdout, stderr, exitCode, configText, loadResult,
          detectOut, getResult, runResult, trace, call, ret>>

-----------------------------------------------------------------------------
(* Bounds of the model *)

MaxKeyLen == 4
MaxLines == 3
MaxArgs == 2

-----------------------------------------------------------------------------
(* Option and Result *)

None == [some |-> FALSE]
Some(v) == [some |-> TRUE, v |-> v]
Ok(v) == [ok |-> TRUE, val |-> v]
Err(chain) == [ok |-> FALSE, err |-> chain]

\* anyhow!(fmt, args): an error with a single message
Msg(fmt, nums, texts) == [fmt |-> fmt, nums |-> nums, texts |-> texts]
\* Result::context / with_context: on Err, a new outermost message
WithContext(r, m) == IF r.ok THEN r ELSE Err(<<m>> \o r.err)

SeqsUpTo(S, n) == UNION {[1..k -> S] : k \in 0..n}

-----------------------------------------------------------------------------
(* Characters and strings (the std operations the sources call) *)

UpperSeq == <<"A","B","C","D","E","F","G","H","I","J","K","L","M",
              "N","O","P","Q","R","S","T","U","V","W","X","Y","Z">>
LowerSeq == <<"a","b","c","d","e","f","g","h","i","j","k","l","m",
              "n","o","p","q","r","s","t","u","v","w","x","y","z">>
DigitSeq == <<"0","1","2","3","4","5","6","7","8","9">>
Range(s) == {s[i] : i \in DOMAIN s}

\* char::is_ascii_alphanumeric
IsAsciiAlphanumeric(c) == c \in Range(UpperSeq) \cup Range(LowerSeq) \cup Range(DigitSeq)

\* char::is_whitespace, on the characters the model uses
IsWhitespace(c) == c \in {" ", "\t", "\r"}

\* u8::to_ascii_lowercase, character by character
ToAsciiLowercase(c) ==
    IF c \in Range(UpperSeq)
    THEN LowerSeq[CHOOSE i \in DOMAIN UpperSeq : UpperSeq[i] = c]
    ELSE c

\* str::eq_ignore_ascii_case
EqIgnoreAsciiCase(a, b) ==
    /\ Len(a) = Len(b)
    /\ \A i \in DOMAIN a : ToAsciiLowercase(a[i]) = ToAsciiLowercase(b[i])

\* position of the first c in s, 0 if there is none
Find(s, c) ==
    IF \E i \in DOMAIN s : s[i] = c
    THEN CHOOSE i \in DOMAIN s : s[i] = c /\ \A j \in 1..(i-1) : s[j] # c
    ELSE 0

\* position of the last c in s, 0 if there is none
RFind(s, c) ==
    IF \E i \in DOMAIN s : s[i] = c
    THEN CHOOSE i \in DOMAIN s : s[i] = c /\ \A j \in (i+1)..Len(s) : s[j] # c
    ELSE 0

\* str::split_once(c): the text before and the text after the first c
SplitOnce(s, c) ==
    LET i == Find(s, c) IN
    IF i = 0 THEN None
    ELSE Some([before |-> SubSeq(s, 1, i-1), after |-> SubSeq(s, i+1, Len(s))])

\* str::trim
RECURSIVE TrimStart(_)
TrimStart(s) ==
    IF s # <<>> /\ IsWhitespace(Head(s)) THEN TrimStart(Tail(s)) ELSE s
RECURSIVE TrimEnd(_)
TrimEnd(s) ==
    IF s # <<>> /\ IsWhitespace(s[Len(s)]) THEN TrimEnd(SubSeq(s, 1, Len(s)-1)) ELSE s
Trim(s) == TrimEnd(TrimStart(s))

\* length of the longest prefix of s without whitespace
RECURSIVE TokenLen(_)
TokenLen(s) ==
    IF s = <<>> \/ IsWhitespace(Head(s)) THEN 0 ELSE 1 + TokenLen(Tail(s))

\* str::split_whitespace().collect(): the maximal runs of non-whitespace, in order
RECURSIVE SplitWhitespace(_)
SplitWhitespace(s) ==
    LET t == TrimStart(s) IN
    IF t = <<>> THEN <<>>
    ELSE LET n == TokenLen(t) IN
         <<SubSeq(t, 1, n)>> \o SplitWhitespace(SubSeq(t, n+1, Len(t)))

-----------------------------------------------------------------------------
(* src/config.rs: the rules *)

Wildcard == [kind |-> "Wildcard"]
Specific(s) == [kind |-> "Specific", subtype |-> s]
MimeTypeKey(supertype, subtype) == [supertype |-> supertype, subtype |-> subtype]
ExtensionMapping(extension, program) ==
    [kind |-> "Extension", extension |-> extension, program |-> program]
MimeMapping(mime, program) == [kind |-> "Mime", mime |-> mime, program |-> program]

\* the closure char_allowed of MimeTypeKey::from_str
CharAllowed(c) ==
    IsAsciiAlphanumeric(c) \/ c = "+" \/ c = "-" \/ c = "." \/ c = "_"

InvalidMimeType(s) == Msg("Invalid MIME type: {}", <<>>, <<s>>)

\* a plausible slip: the subtype is not validated
FromStrUncheckedSubtype(s) ==
    LET split == SplitOnce(s, "/") IN
    IF ~split.some THEN Err(<<InvalidMimeType(s)>>)
    ELSE LET supertype == split.v.before
             subtype == split.v.after
         IN  IF \/ supertype = <<>>
                \/ subtype = <<>>
                \/ ~(\A i \in DOMAIN supertype : CharAllowed(supertype[i]))
             THEN Err(<<InvalidMimeType(s)>>)
             ELSE IF subtype = <<"*">>
                  THEN Ok(MimeTypeKey(supertype, Wildcard))
                  ELSE Ok(MimeTypeKey(supertype, Specific(subtype)))

\* <MimeTypeKey as FromStr>::from_str
MimeTypeKeyFromStr(s) ==
    LET split == SplitOnce(s, "/") IN
    IF ~split.some THEN Err(<<InvalidMimeType(s)>>)
    ELSE LET supertype == split.v.before
             subtype == split.v.after
         IN  IF \/ supertype = <<>>
                \/ subtype = <<>>
                \/ ~(\A i \in DOMAIN supertype : CharAllowed(supertype[i]))
             THEN Err(<<InvalidMimeType(s)>>)
             ELSE IF subtype = <<"*">>
                  THEN Ok(MimeTypeKey(supertype, Wildcard))
                  ELSE IF ~(\A i \in DOMAIN subtype : CharAllowed(subtype[i]))
                       THEN Err(<<InvalidMimeType(s)>>)
                       ELSE Ok(MimeTypeKey(supertype, Specific(subtype)))

\* a plausible slip: the comment starts at the last '#' of the line
StripCommentAtLastHash(line) ==
    LET i == RFind(line, "#") IN
    Trim(IF i # 0 THEN SubSeq(line, 1, i - 1) ELSE line)

\* the line up to its first '#', trimmed (Config::parse, the comment is dropped)
StripComment(line) ==
    LET split == SplitOnce(line, "#") IN
    Trim(IF split.some THEN split.v.before ELSE line)

InvalidLine(line) == Msg("Invalid line: {}", <<>>, <<line>>)
FailedToReadLine(line_number) == Msg("Failed to read line {}", <<line_number>>, <<>>)
FailedToParse == Msg("Failed to parse config file", <<>>, <<>>)
\* the io::Error a failed read carries
IoError == Msg("io::Error", <<>>, <<>>)

\* an item of BufRead::lines: a line without its terminator, or a read error
ReadOk(text) == [ok |-> TRUE, text |-> text]
ReadErr == [ok |-> FALSE]

\* a plausible slip: tokens after the third are ignored
ParseLineAtLeastThree(line_number, item) ==
    IF ~item.ok THEN Err(<<FailedToReadLine(line_number), IoError>>)
    ELSE LET line == StripComment(item.text) IN
         IF line = <<>> THEN Ok(None)
         ELSE LET parts == SplitWhitespace(line) IN
              IF Len(parts) < 3 THEN Err(<<InvalidLine(line)>>)
              ELSE LET program == parts[3] IN
                   IF parts[1] = <<"e","x","t">>
                   THEN Ok(Some(ExtensionMapping(parts[2], program)))
                   ELSE IF parts[1] = <<"m","i","m","e">>
                   THEN LET mime == WithContext(MimeTypeKeyFromStr(parts[2]), InvalidLine(line)) IN
                        IF mime.ok THEN Ok(Some(MimeMapping(mime.val, program))) ELSE mime
                   ELSE Err(<<InvalidLine(line)>>)

\* the closure Config::parse maps over the numbered lines: Ok(None) for a
\* line without a rule, Ok(Some(mapping)) for a rule, Err for a bad line
ParseLine(line_number, item) ==
    IF ~item.ok THEN Err(<<FailedToReadLine(line_number), IoError>>)
    ELSE LET line == StripComment(item.text) IN
         IF line = <<>> THEN Ok(None)
         ELSE LET parts == SplitWhitespace(line) IN
              IF Len(parts) # 3 THEN Err(<<InvalidLine(line)>>)
              ELSE LET program == parts[3] IN
                   IF parts[1] = <<"e","x","t">>
                   THEN Ok(Some(ExtensionMapping(parts[2], program)))
                   ELSE IF parts[1] = <<"m","i","m","e">>
                   THEN LET mime == WithContext(MimeTypeKeyFromStr(parts[2]), InvalidLine(line)) IN
                        IF mime.ok THEN Ok(Some(MimeMapping(mime.val, program))) ELSE mime
                   ELSE Err(<<InvalidLine(line)>>)

\* a plausible slip: a bad line is dropped and the rules of the others are kept
RECURSIVE CollectMappingsSkipBad(_, _)
CollectMappingsSkipBad(lines, line_number) ==
    IF line_number > Len(lines) THEN Ok(<<>>)
    ELSE LET r == ParseLine(line_number, lines[line_number])
             rest == CollectMappingsSkipBad(lines, line_number + 1)
         IN  Ok((IF r.ok /\ r.val.some THEN <<r.val.v>> ELSE <<>>) \o rest.val)

\* filter_map(Result::transpose).collect::<Result<Vec<_>>>(): the rules of the
\* lines from line_number on, in order, or the error of the first bad line
RECURSIVE CollectMappings(_, _)
CollectMappings(lines, line_number) ==
    IF line_number > Len(lines) THEN Ok(<<>>)
    ELSE LET r == ParseLine(line_number, lines[line_number]) IN
         IF ~r.ok THEN r
         ELSE LET rest == CollectMappings(lines, line_number + 1) IN
              IF ~rest.ok THEN rest
              ELSE Ok((IF r.val.some THEN <<r.val.v>> ELSE <<>>) \o rest.val)

\* Config::parse
ConfigParse(lines) ==
    LET mappings == WithContext(CollectMappings(lines, 1), FailedToParse) IN
    IF mappings.ok THEN Ok([mappings |-> mappings.val]) ELSE mappings

-----------------------------------------------------------------------------
(* src/mime.rs: the detected MIME type; src/config.rs: matching *)

MimeType(supertype, subtype) == [supertype |-> supertype, subtype |-> subtype]

\* <MimeType as Display>::fmt
MimeTypeDisplay(mime) == mime.supertype \o <<"/">> \o mime.subtype

\* a plausible slip: the comparison is case-sensitive
MatchesCaseSensitive(key, mime) ==
    /\ key.supertype = mime.supertype
    /\ IF key.subtype.kind = "Specific"
       THEN key.subtype.subtype = mime.subtype
       ELSE TRUE

\* MimeTypeKey::matches
MimeTypeKeyMatches(key, mime) ==
    /\ EqIgnoreAsciiCase(key.supertype, mime.supertype)
    /\ IF key.subtype.kind = "Specific"
       THEN EqIgnoreAsciiCase(key.subtype.subtype, mime.subtype)
       ELSE TRUE

\* a plausible slip: the extension is compared ignoring ASCII case
MappingGetProgramIgnoreCase(mapping, mime, extension) ==
    IF mapping.kind = "Extension"
    THEN IF extension.some /\ EqIgnoreAsciiCase(mapping.extension, extension.v)
         THEN Some(mapping.program) ELSE None
    ELSE IF MimeTypeKeyMatches(mapping.mime, mime)
         THEN Some(mapping.program) ELSE None

\* Mapping::get_program: the program if the mapping matches the file
MappingGetProgram(mapping, mime, extension) ==
    IF mapping.kind = "Extension"
    THEN IF extension = Some(mapping.extension) THEN Some(mapping.program) ELSE None
    ELSE IF MimeTypeKeyMatches(mapping.mime, mime)
         THEN Some(mapping.program) ELSE None

\* Path::file_name, for a path without "." components: the text after the
\* last '/' once trailing '/' are dropped, none if that is empty or ".."
RECURSIVE TrimSlashes(_)
TrimSlashes(path) ==
    IF path # <<>> /\ path[Len(path)] = "/"
    THEN TrimSlashes(SubSeq(path, 1, Len(path)-1)) ELSE path
PathFileName(path) ==
    LET p == TrimSlashes(path)
        name == SubSeq(p, RFind(p, "/") + 1, Len(p))
    IN  IF name = <<>> \/ name = <<".", ".">> THEN None ELSE Some(name)

\* Path::extension: the text after the last '.' of the file name, none if the
\* file name has no '.' or only a leading one
PathExtension(path) ==
    LET file == PathFileName(path) IN
    IF ~file.some THEN None
    ELSE LET dot == RFind(file.v, ".") IN
         IF dot <= 1 THEN None
         ELSE Some(SubSeq(file.v, dot + 1, Len(file.v)))

\* the outcomes of running the 'file' command (Command::output)
SpawnFailed == [kind |-> "spawn failed"]
Exited(success, utf8, out, err) ==
    [kind |-> "exited", success |-> success, utf8 |-> utf8, stdout |-> out, stderr |-> err]

FileExecFailed == Msg("Failed to execute 'file' command", <<>>, <<>>)
FileOutputNotUtf8 == Msg("'file' output is invalid UTF-8", <<>>, <<>>)
FileOutputNotMime(out) == Msg("'file' output is not a valid MIME type: {}", <<>>, <<out>>)
FileCommandFailed == Msg("'file' command failed", <<>>, <<>>)
Utf8Error == Msg("Utf8Error", <<>>, <<>>)

\* MimeType::detect, given what the 'file' command did
MimeTypeDetect(output) ==
    IF output.kind = "spawn failed" THEN Err(<<FileExecFailed, IoError>>)
    ELSE IF output.success
    THEN IF ~output.utf8 THEN Err(<<FileOutputNotUtf8, Utf8Error>>)
         ELSE LET split == SplitOnce(Trim(output.stdout), "/") IN
              IF ~split.some THEN Err(<<FileOutputNotMime(output.stdout)>>)
              ELSE Ok(MimeType(split.v.before, split.v.after))
    ELSE Err(<<FileCommandFailed, Msg("{}", <<>>, <<output.stderr>>)>>)

\* a plausible slip: the last matching rule wins
RECURSIVE FindMapLast(_, _, _)
FindMapLast(mappings, mime, extension) ==
    IF mappings = <<>> THEN None
    ELSE LET later == FindMapLast(Tail(mappings), mime, extension) IN
         IF later.some THEN later
         ELSE MappingGetProgram(Head(mappings), mime, extension)

\* Iterator::find_map over the mappings, from the front
RECURSIVE FindMap(_, _, _)
FindMap(mappings, mime, extension) ==
    IF mappings = <<>> THEN None
    ELSE LET program == MappingGetProgram(Head(mappings), mime, extension) IN
         IF program.some THEN program ELSE FindMap(Tail(mappings), mime, extension)

NoProgramFound(mime, extension) ==
    IF extension.some
    THEN Msg("No program found for MIME type '{}', extension '{}'", <<>>,
             <<MimeTypeDisplay(mime), extension.v>>)
    ELSE Msg("No program found for MIME type '{}'", <<>>, <<MimeTypeDisplay(mime)>>)

\* a plausible variant: extension rules are tried before the MIME type is
\* detected, and the MIME rules only when none of them matches
GetProgramExtensionFirst(config, file_path, output) ==
    LET extension == PathExtension(file_path)
        exts == SelectSeq(config.mappings, LAMBDA m : m.kind = "Extension")
        byExt == FindMap(exts, MimeType(<<>>, <<>>), extension)
    IN  IF byExt.some THEN Ok(byExt.v)
        ELSE LET mime == MimeTypeDetect(output) IN
             IF ~mime.ok THEN mime
             ELSE LET found == FindMap(config.mappings, mime.val, extension) IN
                  IF found.some THEN Ok(found.v)
                  ELSE Err(<<NoProgramFound(mime.val, extension)>>)

\* Config::get_program, given what the 'file' command did
ConfigGetProgram(config, file_path, output) ==
    LET extension == PathExtension(file_path)
        mime == MimeTypeDetect(output)
    IN  IF ~mime.ok THEN mime
        ELSE LET found == FindMap(config.mappings, mime.val, extension) IN
             IF found.some THEN Ok(found.v)
             ELSE Err(<<NoProgramFound(mime.val, extension)>>)

\* the environment Config::load reads: HOME and the file at the config path
HomeNotSet == Msg("HOME environment variable not set", <<>>, <<>>)
ConfigNotFound(path) == Msg("Config file not found: {}", <<>>, <<path>>)
ConfigOpenFailed(path) == Msg("Failed to open config file: {}", <<>>, <<path>>)

\* config_path: HOME with ".config/uf.conf" pushed
ConfigPath(home) ==
    IF home.some
    THEN Ok(home.v \o <<"/">> \o <<".","c","o","n","f","i","g","/","u","f",".","c","o","n","f">>)
    ELSE Err(<<HomeNotSet>>)

\* Config::load, given HOME, how File::open ended and the lines of the file
ConfigLoad(home, open, lines) ==
    LET path == ConfigPath(home) IN
    IF ~path.ok THEN path
    ELSE IF open = "not found" THEN Err(<<ConfigNotFound(path.val)>>)
    ELSE IF open = "error" THEN Err(<<ConfigOpenFailed(path.val), IoError>>)
    ELSE ConfigParse(lines)

-----------------------------------------------------------------------------
(* src/cli.rs: Cli::parse; src/lib.rs: the exit status *)

ExitSuccess == 0
ExitFailure == 1

Printed(fmt, args) == [fmt |-> fmt, args |-> args]
HELP == Printed("HELP", <<>>)
ERROR_HELP == Printed("ERROR_HELP", <<>>)
VERSION == Printed("{} {}", <<"CARGO_PKG_NAME", "CARGO_PKG_VERSION">>)

\* a byte sequence that is no Unicode text has the character BadByte in it
BadByte == "0xFF"
IsUnicode(arg) == \A i \in DOMAIN arg : arg[i] # BadByte

Flag_h == <<"-","h">>
Flag_help == <<"-","-","h","e","l","p">>
Flag_v == <<"-","v">>
Flag_version == <<"-","-","v","e","r","s","i","o","n">>

Exits(code, out, err) == [exit |-> Some(code), stdout |-> out, stderr |-> err, cli |-> None]

\* a plausible slip: the argument count is checked before the flags
CliParseCountFirst(args) ==
    IF \E i \in DOMAIN args : ~IsUnicode(args[i])
    THEN LET i == CHOOSE k \in DOMAIN args :
                    ~IsUnicode(args[k]) /\ \A j \in 1..(k-1) : IsUnicode(args[j])
         IN  Exits(1, <<>>, <<Printed("Error: {:?}", <<args[i]>>)>>)
    ELSE IF Len(args) # 2 THEN Exits(1, <<>>, <<ERROR_HELP>>)
    ELSE IF args[2] = Flag_h \/ args[2] = Flag_help THEN Exits(0, <<HELP>>, <<>>)
    ELSE IF args[2] = Flag_v \/ args[2] = Flag_version THEN Exits(0, <<VERSION>>, <<>>)
    ELSE [exit |-> None, stdout |-> <<>>, stderr |-> <<>>, cli |-> Some([file |-> args[2]])]

\* Cli::parse: the process exits, or a Cli is returned
CliParse(args) ==
    IF \E i \in DOMAIN args : ~IsUnicode(args[i])
    THEN LET i == CHOOSE k \in DOMAIN args :
                    ~IsUnicode(args[k]) /\ \A j \in 1..(k-1) : IsUnicode(args[j])
         IN  Exits(1, <<>>, <<Printed("Error: {:?}", <<args[i]>>)>>)
    ELSE IF Len(args) < 2 THEN Exits(1, <<>>, <<ERROR_HELP>>)
    ELSE IF args[2] = Flag_h \/ args[2] = Flag_help THEN Exits(0, <<HELP>>, <<>>)
    ELSE IF args[2] = Flag_v \/ args[2] = Flag_version THEN Exits(0, <<VERSION>>, <<>>)
    ELSE IF Len(args) # 2 THEN Exits(1, <<>>, <<ERROR_HELP>>)
    ELSE [exit |-> None, stdout |-> <<>>, stderr |-> <<>>, cli |-> Some([file |-> args[2]])]

OpenFailed == Msg("Failed to open the file", <<>>, <<>>)

-----------------------------------------------------------------------------
(* Values of the variables a specification does not use *)

NoCall == [op |-> "none"]
NoRet == [ok |-> FALSE, err |-> <<>>]

Idle ==
    /\ argv = <<>>
    /\ cli = None
    /\ stdout = <<>>
    /\ stderr = <<>>
    /\ exitCode = None
    /\ configText = <<>>
    /\ loadResult = None
    /\ detectOut = None
    /\ getResult = None
    /\ runResult = None
    /\ trace = <<>>

pipelineVars == <<argv, cli, stdout, stderr, exitCode, configText, loadResult,
                  detectOut, getResult, runResult, trace>>

-----------------------------------------------------------------------------
(* SpecKey: every key text up to MaxKeyLen characters, as the key of the   *)
(* only line "mime <key> p" of a config, parsed by Config::parse           *)

KeyAlphabet == {"a", "Z", "9", "/", "*", "+", "-", ".", "_", "U+00E9"}
\* a token of a line is never empty
Keys == SeqsUpTo(KeyAlphabet, MaxKeyLen) \ {<<>>}
ProgP == <<"p">>
MimeLine(key) == <<"m","i","m","e"," ">> \o key \o <<" ">> \o ProgP

InitKey ==
    /\ pc = "call"
    /\ call \in {[op |-> "parse", key |-> k] : k \in Keys}
    /\ ret = NoRet
    /\ Idle

ParseMimeLine ==
    /\ pc = "call"
    /\ ret' = ConfigParse(<<ReadOk(MimeLine(call.key))>>)
    /\ pc' = "return"
    /\ UNCHANGED <<call, pipelineVars>>

NextKey == ParseMimeLine
SpecKey == InitKey /\ [][NextKey]_vars

\* the characters the claim allows in a supertype and in a specific subtype
KeyChars == Range(UpperSeq) \cup Range(LowerSeq) \cup Range(DigitSeq) \cup {"+", "-", ".", "_"}

\* the position of the '/' that makes the key acceptable, if there is one
KeySlash(key) ==
    {i \in DOMAIN key :
        /\ key[i] = "/"
        /\ \A j \in 1..(i-1) : key[j] # "/"
        /\ i > 1
        /\ i < Len(key)
        /\ \A j \in 1..(i-1) : key[j] \in KeyChars
        /\ \/ SubSeq(key, i+1, Len(key)) = <<"*">>
           \/ \A j \in (i+1)..Len(key) : key[j] \in KeyChars}

\* C7: the key of a mime line is accepted iff it has a '/', both sides of the
\* first '/' are non-empty, the supertype has only ASCII alphanumerics and
\* + - . _ and the subtype is "*" or has only those characters; a rejected key
\* fails the parse with InvalidMimeType(key) as the cause; an accepted key
\* gives one rule, a wildcard for "*" and otherwise a specific subtype, with
\* supertype and subtype verbatim.
C7_MimeKeyValidation ==
    pc = "return" =>
        LET key == call.key IN
        /\ ret.ok <=> KeySlash(key) # {}
        /\ ~ret.ok => ret.err[Len(ret.err)] = InvalidMimeType(key)
        /\ ret.ok =>
            \E i \in KeySlash(key) :
                LET super == SubSeq(key, 1, i-1)
                    sub == SubSeq(key, i+1, Len(key))
                IN  ret.val.mappings =
                        <<MimeMapping(MimeTypeKey(super,
                              IF sub = <<"*">> THEN Wildcard ELSE Specific(sub)), ProgP)>>

\* the wildcard key a/* has been parsed into a wildcard rule
W7_WildcardKeyParsed ==
    /\ pc = "return"
    /\ call.key = <<"a", "/", "*">>
    /\ ret.ok
    /\ ret.val.mappings[1].mime.subtype = Wildcard

-----------------------------------------------------------------------------
(* Texts used as inputs *)

T_txt == <<"t","x","t">>
T_TXT == <<"T","X","T">>
T_png == <<"p","n","g">>
T_text == <<"t","e","x","t">>
T_Text == <<"T","e","x","t">>
T_TEXT == <<"T","E","X","T">>
T_image == <<"i","m","a","g","e">>
T_application == <<"a","p","p","l","i","c","a","t","i","o","n">>
T_plain == <<"p","l","a","i","n">>
T_Plain == <<"P","l","a","i","n">>
T_PLAIN == <<"P","L","A","I","N">>
T_jpeg == <<"j","p","e","g">>
ProgA == <<"A">>
ProgB == <<"B">>

P_a_txt == <<"a",".","t","x","t">>
P_X_TXT == <<"X",".","T","X","T">>
P_noext == <<"n","o","e","x","t">>
P_hidden == <<".","t","x","t">>
P_photo_png == <<"p","h","o","t","o",".","p","n","g">>
P_a_b_png == <<"a",".","t","x","t",".","p","n","g">>
P_dir_txt_f == <<"d",".","t","x","t","/","f">>
P_dir_a_txt == <<"d","/","a",".","t","x","t">>
P_a_dot == <<"a",".">>
P_dotdot == <<".",".">>
P_d_png_slash == <<"d",".","p","n","g","/">>

Paths == {P_a_txt, P_X_TXT, P_noext, P_hidden, P_photo_png, P_a_b_png,
          P_dir_txt_f, P_dir_a_txt, P_a_dot, P_dotdot, P_d_png_slash}

Supertypes == {T_text, T_Text, T_TEXT, T_image, T_application}
Subtypes == {T_plain, T_Plain, T_PLAIN, T_png, T_jpeg}
DetectedMimes == {MimeType(a, b) : a \in Supertypes, b \in Subtypes}

-----------------------------------------------------------------------------
(* SpecMatch: one rule asked whether it applies to one file *)

MatchMappings ==
    {ExtensionMapping(e, ProgA) : e \in {T_txt, T_TXT, T_png, <<".">> \o T_txt}}
    \cup {MimeMapping(MimeTypeKey(a, Specific(b)), ProgB) : a \in Supertypes, b \in Subtypes}
    \cup {MimeMapping(MimeTypeKey(a, Wildcard), ProgB) : a \in Supertypes}

InitMatch ==
    /\ pc = "call"
    /\ call \in {[op |-> "get_program", mapping |-> m, mime |-> t, path |-> p] :
                    m \in MatchMappings, t \in DetectedMimes, p \in Paths}
    /\ ret = NoRet
    /\ Idle

ApplyMapping ==
    /\ pc = "call"
    /\ ret' = MappingGetProgram(call.mapping, call.mime, PathExtension(call.path))
    /\ pc' = "return"
    /\ UNCHANGED <<call, pipelineVars>>

NextMatch == ApplyMapping
SpecMatch == InitMatch /\ [][NextMatch]_vars

\* a text with its ASCII capitals replaced by small letters
Lower(s) == [i \in DOMAIN s |-> ToAsciiLowercase(s[i])]

\* C2: a MIME rule applies iff its supertype equals the detected supertype
\* ignoring case and its subtype is the wildcard or equals the detected subtype
\* ignoring case, whatever the path is; image/* applies to image/png and
\* image/jpeg and not to application/png, Text/Plain applies to text/plain and
\* to TEXT/PLAIN.
C2_MimeRuleApplies ==
    (pc = "return" /\ call.mapping.kind = "Mime") =>
        LET key == call.mapping.mime
            mime == call.mime
        IN  /\ ret.some <=>
                /\ Lower(key.supertype) = Lower(mime.supertype)
                /\ \/ key.subtype = Wildcard
                   \/ /\ key.subtype.kind = "Specific"
                      /\ Lower(key.subtype.subtype) = Lower(mime.subtype)
            /\ ret.some => ret.v = call.mapping.program
            /\ (key = MimeTypeKey(T_image, Wildcard) /\ mime.supertype = T_image
                    /\ mime.subtype \in {T_png, T_jpeg}) => ret.some
            /\ (key = MimeTypeKey(T_image, Wildcard) /\ mime = MimeType(T_application, T_png))
                    => ~ret.some
            /\ (key = MimeTypeKey(T_Text, Specific(T_Plain))
                    /\ mime \in {MimeType(T_text, T_plain), MimeType(T_TEXT, T_PLAIN)}) => ret.some

\* the rule Text/Plain has been applied to a file detected as TEXT/PLAIN
W2_CaseInsensitiveMatch ==
    /\ pc = "return"
    /\ call.mapping.kind = "Mime"
    /\ call.mapping.mime = MimeTypeKey(T_Text, Specific(T_Plain))
    /\ call.mime = MimeType(T_TEXT, T_PLAIN)
    /\ call.path = P_photo_png
    /\ ret.some

\* the text after the last '.' of the last component of a path, as the claim
\* reads "extension": there is one iff that component has a '.' after its
\* first character
ExtOf(path) ==
    LET file == PathFileName(path) IN
    IF file.some /\ \E i \in 2..Len(file.v) : file.v[i] = "."
    THEN {SubSeq(file.v, i + 1, Len(file.v)) :
            i \in {k \in 2..Len(file.v) :
                    file.v[k] = "." /\ \A j \in (k+1)..Len(file.v) : file.v[j] # "."}}
    ELSE {}

\* C3: an extension rule applies iff the path has an extension and it equals
\* the rule's extension character for character, whatever the detected MIME
\* type is; X.TXT is not matched by ext txt, and a path without an extension
\* is matched by no extension rule.
C3_ExtensionRuleApplies ==
    (pc = "return" /\ call.mapping.kind = "Extension") =>
        /\ ret.some <=> call.mapping.extension \in ExtOf(call.path)
        /\ ret.some => ret.v = call.mapping.program
        /\ (call.path = P_X_TXT /\ call.mapping.extension = T_txt) => ~ret.some
        /\ call.path \in {P_noext, P_hidden, P_dir_txt_f, P_dotdot} => ~ret.some

\* the rule ext txt has been asked about X.TXT and does not apply
W3_UpperCaseExtensionNotMatched ==
    /\ pc = "return"
    /\ call.mapping = ExtensionMapping(T_txt, ProgA)
    /\ call.path = P_X_TXT
    /\ ~ret.some

-----------------------------------------------------------------------------
(* Spec: one invocation of uf, from its arguments to its end *)

\* the lines a config file is made of; every rule names its own program
Sp == <<" ">>
K_ext == <<"e","x","t">>
K_mime == <<"m","i","m","e">>
ProgC == <<"C">>
ProgD == <<"D">>
L_ext_txt_B == K_ext \o Sp \o T_txt \o Sp \o ProgB
L_ext_png_D == K_ext \o Sp \o T_png \o Sp \o ProgD
L_mime_text_any_A == K_mime \o Sp \o T_text \o <<"/", "*">> \o Sp \o ProgA
L_mime_Text_Plain_C == K_mime \o Sp \o T_Text \o <<"/">> \o T_Plain \o Sp \o ProgC
L_comment == <<" "," ","#"," ","c">>
L_foo_a_b == <<"f","o","o"," ","a"," ","b">>
L_mime_bad_a == K_mime \o Sp \o <<"b","a","d">> \o Sp \o <<"a">>

ConfigItems ==
    {ReadOk(l) : l \in {L_ext_txt_B, L_ext_png_D, L_mime_text_any_A, L_mime_Text_Plain_C,
                        L_comment, L_foo_a_b, L_mime_bad_a}}
    \cup {ReadErr}
ConfigTexts == SeqsUpTo(ConfigItems, MaxLines)

FilePaths == {P_a_txt, P_X_TXT, P_noext, P_photo_png, P_hidden}
ProgramName == <<"u","f">>
ArgTokens == FilePaths \cup {Flag_h, Flag_help, Flag_v, Flag_version, <<"f", BadByte>>}
Argvs == {<<>>} \cup {<<ProgramName>> \o a : a \in SeqsUpTo(ArgTokens, MaxArgs)}

Nl == <<"\n">>
DetectOutcomes ==
    {SpawnFailed,
     Exited(FALSE, TRUE, <<>>, <<"c","a","n","n","o","t">>),
     Exited(TRUE, FALSE, <<>>, <<>>),
     Exited(TRUE, TRUE, <<"d","a","t","a">> \o Nl, <<>>),
     Exited(TRUE, TRUE, T_text \o <<"/">> \o T_plain \o Nl, <<>>),
     Exited(TRUE, TRUE, T_TEXT \o <<"/">> \o T_PLAIN \o Nl, <<>>),
     Exited(TRUE, TRUE, T_image \o <<"/">> \o T_png \o Nl, <<>>)}

Homes == {None, Some(<<"/","h">>)}
OpenOutcomes == {"ok", "not found", "error"}

Step(name, args) == [step |-> name, args |-> args]

Init ==
    /\ pc = "start"
    /\ argv \in Argvs
    /\ cli = None
    /\ stdout = <<>>
    /\ stderr = <<>>
    /\ exitCode = None
    /\ configText = <<>>
    /\ loadResult = None
    /\ detectOut = None
    /\ getResult = None
    /\ runResult = None
    /\ trace = <<>>
    /\ call = NoCall
    /\ ret = NoRet

\* lib::run, first statement: Cli::parse()
ParseArgs ==
    /\ pc = "start"
    /\ LET r == CliParse(argv) IN
        /\ stdout' = stdout \o r.stdout
        /\ stderr' = stderr \o r.stderr
        /\ cli' = r.cli
        /\ exitCode' = r.exit
        /\ pc' = IF r.exit.some THEN "exited" ELSE "parsed"
    /\ UNCHANGED <<argv, configText, loadResult, detectOut, getResult, runResult,
                   trace, call, ret>>

\* Cli::run, first statement: Config::load()?
LoadConfig ==
    /\ pc = "parsed"
    /\ \E home \in Homes, open \in OpenOutcomes, lines \in ConfigTexts :
        LET r == ConfigLoad(home, open, lines) IN
        /\ configText' = IF home.some /\ open = "ok" THEN lines ELSE <<>>
        /\ loadResult' = Some(r)
        /\ trace' = trace \o <<Step("load", <<>>)>>
        /\ runResult' = IF r.ok THEN runResult ELSE Some(r)
        /\ pc' = IF r.ok THEN "loaded" ELSE "returned"
    /\ UNCHANGED <<argv, cli, stdout, stderr, exitCode, detectOut, getResult, call, ret>>

\* Cli::run, second statement: config.get_program(&self.file)?
GetProgram ==
    /\ pc = "loaded"
    /\ \E output \in DetectOutcomes :
        LET r == ConfigGetProgram(loadResult.v.val, cli.v.file, output) IN
        /\ detectOut' = Some(output)
        /\ getResult' = Some(r)
        /\ trace' = trace \o <<Step("detect", <<cli.v.file>>)>>
        /\ runResult' = IF r.ok THEN runResult ELSE Some(r)
        /\ pc' = IF r.ok THEN "resolved" ELSE "returned"
    /\ UNCHANGED <<argv, cli, stdout, stderr, exitCode, configText, loadResult, call, ret>>

\* a plausible slip: a launch that failed is tried again
ExecRetry ==
    /\ pc = "resolved"
    /\ trace' = trace \o <<Step("exec", <<getResult.v.val, cli.v.file>>)>>
    /\ \E launched \in BOOLEAN :
        /\ pc' = IF launched THEN "replaced" ELSE "resolved"
        /\ runResult' = runResult
    /\ UNCHANGED <<argv, cli, stdout, stderr, exitCode, configText, loadResult,
                   detectOut, getResult, call, ret>>

\* Cli::run, last statement: Command::new(program).arg(&self.file).exec(), which
\* returns only when the program could not be launched
Exec ==
    /\ pc = "resolved"
    /\ trace' = trace \o <<Step("exec", <<getResult.v.val, cli.v.file>>)>>
    /\ \E launched \in BOOLEAN :
        /\ pc' = IF launched THEN "replaced" ELSE "returned"
        /\ runResult' = IF launched THEN runResult ELSE Some(Err(<<OpenFailed, IoError>>))
    /\ UNCHANGED <<argv, cli, stdout, stderr, exitCode, configText, loadResult,
                   detectOut, getResult, call, ret>>

\* lib::run, the match on the value of args.run()
RunExit ==
    /\ pc = "returned"
    /\ IF runResult.v.ok
       THEN /\ exitCode' = Some(ExitSuccess)
            /\ stderr' = stderr
       ELSE /\ exitCode' = Some(ExitFailure)
            /\ stderr' = stderr \o <<Printed("Error: {:#}", runResult.v.err)>>
    /\ pc' = "exited"
    /\ UNCHANGED <<argv, cli, stdout, configText, loadResult, detectOut, getResult,
                   runResult, trace, call, ret>>

Next == ParseArgs \/ LoadConfig \/ GetProgram \/ Exec \/ RunExit
Spec == Init /\ [][Next]_vars

-----------------------------------------------------------------------------
(* The terms of the claims, written without the operators of the parser    *)
(* and of the matcher                                                      *)

\* the text of a line before its first '#'
BeforeHash(text) ==
    IF \E i \in DOMAIN text : text[i] = "#"
    THEN SubSeq(text, 1, (CHOOSE i \in DOMAIN text :
                            text[i] = "#" /\ \A j \in 1..(i-1) : text[j] # "#") - 1)
    ELSE text

\* the first and last position of text that is not whitespace
FirstInk(text) == CHOOSE i \in DOMAIN text :
    ~IsWhitespace(text[i]) /\ \A j \in 1..(i-1) : IsWhitespace(text[j])
LastInk(text) == CHOOSE i \in DOMAIN text :
    ~IsWhitespace(text[i]) /\ \A j \in (i+1)..Len(text) : IsWhitespace(text[j])

\* a line that is blank or only a comment
IsBlankLine(text) == \A i \in DOMAIN BeforeHash(text) : IsWhitespace(text[i])

\* the text of a line without its comment and the whitespace around it
Stripped(text) ==
    IF IsBlankLine(text) THEN <<>>
    ELSE SubSeq(text, FirstInk(BeforeHash(text)), LastInk(BeforeHash(text)))

Tokens(text) == SplitWhitespace(BeforeHash(text))

\* what a line of the config is: "unreadable", "blank", "malformed" (token
\* count or keyword), "bad key" (of a mime line) or "rule"
LineClass(item) ==
    IF ~item.ok THEN "unreadable"
    ELSE IF IsBlankLine(item.text) THEN "blank"
    ELSE IF Len(Tokens(item.text)) # 3 \/ Tokens(item.text)[1] \notin {K_ext, K_mime}
    THEN "malformed"
    ELSE IF Tokens(item.text)[1] = K_mime /\ KeySlash(Tokens(item.text)[2]) = {}
    THEN "bad key"
    ELSE "rule"

\* the rule a line of class "rule" states
LineRule(item) ==
    LET t == Tokens(item.text) IN
    IF t[1] = K_ext THEN ExtensionMapping(t[2], t[3])
    ELSE LET i == CHOOSE k \in KeySlash(t[2]) : TRUE
             sub == SubSeq(t[2], i + 1, Len(t[2]))
         IN  MimeMapping(MimeTypeKey(SubSeq(t[2], 1, i - 1),
                             IF sub = <<"*">> THEN Wildcard ELSE Specific(sub)), t[3])

\* the rules of the lines of class "rule", in the order of the lines
RulesOf(lines) ==
    LET kept == SelectSeq(lines, LAMBDA it : LineClass(it) = "rule") IN
    [i \in DOMAIN kept |-> LineRule(kept[i])]

\* the number of the first line that is neither blank nor a rule, 0 if none
FirstBadLine(lines) ==
    IF \E n \in DOMAIN lines : LineClass(lines[n]) \notin {"blank", "rule"}
    THEN CHOOSE n \in DOMAIN lines :
            /\ LineClass(lines[n]) \notin {"blank", "rule"}
            /\ \A m \in 1..(n-1) : LineClass(lines[m]) \in {"blank", "rule"}
    ELSE 0

-----------------------------------------------------------------------------
(* SpecParse: Config::parse on one line in any of its spellings, with up   *)
(* to MaxContext plain lines before it and after it                        *)

MaxContext == 1

LinePrefixes == {<<>>, <<" ", "\t">>}
LineBodies ==
    {<<>>,
     K_ext \o Sp \o T_txt \o Sp \o ProgA,
     K_ext \o <<" ", "\t", " ">> \o T_txt \o <<"\t">> \o ProgA,
     K_mime \o Sp \o T_text \o <<"/", "*">> \o Sp \o ProgB,
     K_mime \o Sp \o T_Text \o <<"/">> \o T_Plain \o Sp \o ProgB,
     K_ext,
     K_ext \o Sp \o T_txt,
     K_ext \o Sp \o T_txt \o Sp \o ProgA \o Sp \o <<"x">>,
     L_foo_a_b,
     <<"E","x","t">> \o Sp \o T_txt \o Sp \o ProgA,
     L_mime_bad_a,
     K_mime \o Sp \o <<"/","s","u","b">> \o Sp \o <<"a">>}
LineSuffixes == {<<>>, <<" ", " ", "#", " ", "c">>, <<"#", "c", " ", "#", "d">>, <<"\t", "\r">>}
RichLines == {a \o b \o c : a \in LinePrefixes, b \in LineBodies, c \in LineSuffixes}

ContextItems == {ReadOk(<<>>), ReadOk(L_comment), ReadOk(L_ext_png_D), ReadErr}
Contexts == SeqsUpTo(ContextItems, MaxContext)

InitParse ==
    /\ pc = "call"
    /\ call \in {[op |-> "parse", lines |-> before \o <<ReadOk(l)>> \o after] :
                    before \in Contexts, l \in RichLines, after \in Contexts}
    /\ ret = NoRet
    /\ Idle

ParseConfig ==
    /\ pc = "call"
    /\ ret' = ConfigParse(call.lines)
    /\ pc' = "return"
    /\ UNCHANGED <<call, pipelineVars>>

NextParse == ParseConfig
SpecParse == InitParse /\ [][NextParse]_vars

\* C6 as stated: a line that is not blank is accepted only with 3 tokens and
\* the keyword ext or mime, and a line with another token count or keyword
\* fails the parse with an "Invalid line" message that carries the 1-indexed
\* number of the line and the raw text of the line.
C6_InvalidLineCarriesNumberAndRawText ==
    pc = "return" =>
        LET n == FirstBadLine(call.lines) IN
        /\ ret.ok => \A i \in DOMAIN call.lines : LineClass(call.lines[i]) # "malformed"
        /\ (n # 0 /\ LineClass(call.lines[n]) = "malformed") =>
            /\ ~ret.ok
            /\ \E k \in DOMAIN ret.err :
                ret.err[k] = Msg("Invalid line: {}", <<n>>, <<call.lines[n].text>>)

\* C6 as amended: a line that is not blank is accepted only with 3 tokens and
\* the keyword ext or mime, and a line with another token count or keyword
\* fails the parse with an "Invalid line" message that carries the text of the
\* line without its comment and the whitespace around it, and no line number.
C6_InvalidLineCarriesStrippedText ==
    pc = "return" =>
        LET n == FirstBadLine(call.lines) IN
        /\ ret.ok => \A i \in DOMAIN call.lines : LineClass(call.lines[i]) # "malformed"
        /\ (n # 0 /\ LineClass(call.lines[n]) = "malformed") =>
            /\ ~ret.ok
            /\ ret.err = <<FailedToParse,
                           Msg("Invalid line: {}", <<>>, <<Stripped(call.lines[n].text)>>)>>

\* the second line, "ext txt A x" behind whitespace and before a comment, has
\* failed the parse
W6_FourTokensOnSecondLine ==
    /\ pc = "return"
    /\ Len(call.lines) >= 2
    /\ call.lines[1] = ReadOk(L_ext_png_D)
    /\ call.lines[2] = ReadOk(<<" ", "\t">> \o K_ext \o Sp \o T_txt \o Sp \o ProgA \o Sp
                                \o <<"x">> \o <<" ", " ", "#", " ", "c">>)
    /\ ~ret.ok

\* the lines without the blank and comment-only ones
WithoutBlankLines(lines) ==
    SelectSeq(lines, LAMBDA it : ~(it.ok /\ IsBlankLine(it.text)))
\* the lines, each without its comment
WithoutComments(lines) ==
    [i \in DOMAIN lines |->
        IF lines[i].ok THEN ReadOk(BeforeHash(lines[i].text)) ELSE lines[i]]

\* C8: a line that is blank once its comment is dropped gives no rule and no
\* error, a rule line followed by a comment gives the rule of the line alone,
\* and the rule list of a config is the one of the config without its blank
\* and comment-only lines and the one of the config without its comments.
C8_CommentsAndBlanksTransparent ==
    pc = "return" =>
        LET bare == ConfigParse(WithoutBlankLines(call.lines))
            cut == ConfigParse(WithoutComments(call.lines))
        IN  /\ ret.ok = bare.ok
            /\ ret.ok = cut.ok
            /\ ret.ok => ret.val = bare.val /\ ret.val = cut.val
            /\ (\A i \in DOMAIN call.lines :
                    call.lines[i].ok /\ IsBlankLine(call.lines[i].text))
                => ret = Ok([mappings |-> <<>>])
            /\ call.lines = <<ReadOk(K_ext \o Sp \o T_txt \o Sp \o ProgA
                                        \o <<" ", " ", "#", " ", "c">>)>>
                => ret = Ok([mappings |-> <<ExtensionMapping(T_txt, ProgA)>>])

\* a rule line with a trailing comment between two comment-only lines has
\* been parsed into one rule
W8_RuleBetweenComments ==
    /\ pc = "return"
    /\ call.lines = <<ReadOk(L_comment),
                      ReadOk(K_ext \o Sp \o T_txt \o Sp \o ProgA \o <<" ", " ", "#", " ", "c">>),
                      ReadOk(L_comment)>>
    /\ ret = Ok([mappings |-> <<ExtensionMapping(T_txt, ProgA)>>])

-----------------------------------------------------------------------------
(* Claims about one invocation (Spec) *)

\* a rule applies to a file with the detected type mime and the path path
Applies(rule, mime, path) ==
    IF rule.kind = "Extension" THEN rule.extension \in ExtOf(path)
    ELSE /\ Lower(rule.mime.supertype) = Lower(mime.supertype)
         /\ \/ rule.mime.subtype = Wildcard
            \/ /\ rule.mime.subtype.kind = "Specific"
               /\ Lower(rule.mime.subtype.subtype) = Lower(mime.subtype)

\* the 'file' command gave no MIME type
DetectionFails(output) ==
    \/ output.kind = "spawn failed"
    \/ /\ output.kind = "exited"
       /\ \/ ~output.success
          \/ ~output.utf8
          \/ \A i \in DOMAIN output.stdout : output.stdout[i] # "/"

\* the error of a detection that fails
DetectionError(output) ==
    IF output.kind = "spawn failed" THEN <<FileExecFailed, IoError>>
    ELSE IF ~output.success THEN <<FileCommandFailed, Msg("{}", <<>>, <<output.stderr>>)>>
    ELSE IF ~output.utf8 THEN <<FileOutputNotUtf8, Utf8Error>>
    ELSE <<FileOutputNotMime(output.stdout)>>

\* the MIME type the 'file' command gave: its output without the whitespace
\* around it, cut at the first '/'
DetectedMime(output) ==
    LET out == SubSeq(output.stdout, FirstInk(output.stdout), LastInk(output.stdout))
        i == CHOOSE k \in DOMAIN out : out[k] = "/" /\ \A j \in 1..(k-1) : out[j] # "/"
    IN  MimeType(SubSeq(out, 1, i - 1), SubSeq(out, i + 1, Len(out)))

\* the numbers of the lines of the config whose rule applies to the file
Hits == {n \in DOMAIN configText :
            /\ LineClass(configText[n]) = "rule"
            /\ Applies(LineRule(configText[n]), DetectedMime(detectOut.v), cli.v.file)}

StepNames == [i \in DOMAIN trace |-> trace[i].step]

C4_DetectionFailureFailsResolution ==
    getResult.some =>
        /\ detectOut.some
        /\ StepNames = <<"load", "detect">> \/ StepNames = <<"load", "detect", "exec">>
        /\ DetectionFails(detectOut.v) =>
            /\ ~getResult.v.ok
            /\ getResult.v.err = DetectionError(detectOut.v)
            /\ runResult = getResult
            /\ StepNames = <<"load", "detect">>

\* the detection failed for a.txt under a config whose only rule is ext txt B
W4_DetectionFailedDespiteExtensionRule ==
    /\ getResult.some
    /\ configText = <<ReadOk(L_ext_txt_B)>>
    /\ cli.v.file = P_a_txt
    /\ detectOut.v = SpawnFailed
    /\ ~getResult.v.ok
    /\ pc = "exited"

\* C5: if any line of the config is unreadable or malformed, Config::load
\* fails, no Config exists and nothing is resolved or launched; a Config
\* exists only if every line is a rule, blank or a comment, and then it holds
\* the rules of the lines in their order.
C5_ParseAllOrNothing ==
    loadResult.some =>
        /\ FirstBadLine(configText) # 0 =>
            /\ ~loadResult.v.ok
            /\ loadResult.v.err[1] = FailedToParse
            /\ getResult = None
            /\ detectOut = None
            /\ StepNames = <<"load">>
            /\ pc \in {"returned", "exited"}
        /\ loadResult.v.ok =>
            /\ \A n \in DOMAIN configText : LineClass(configText[n]) \in {"rule", "blank"}
            /\ loadResult.v.val.mappings = RulesOf(configText)

\* a config with two rules and a malformed third line has ended the invocation
W5_BadLineAfterValidLines ==
    /\ pc = "exited"
    /\ configText = <<ReadOk(L_ext_txt_B), ReadOk(L_mime_text_any_A), ReadOk(L_foo_a_b)>>
    /\ ~loadResult.v.ok
    /\ exitCode = Some(ExitFailure)

\* the arguments after the program name
Args == IF argv = <<>> THEN <<>> ELSE Tail(argv)
NothingStarted ==
    /\ pc = "exited"
    /\ cli = None
    /\ trace = <<>>
    /\ loadResult = None
    /\ detectOut = None
    /\ getResult = None

\* C9 as stated: -h or --help prints the usage and exits 0, -v or --version
\* prints name and version and exits 0, and any argument count other than
\* exactly one prints the usage error to standard error and exits 1 with
\* nothing loaded, detected or launched.
C9_AnyOtherCountIsUsageError ==
    pc # "start" =>
        /\ Args \in {<<Flag_h>>, <<Flag_help>>} =>
            NothingStarted /\ stdout = <<HELP>> /\ exitCode = Some(0)
        /\ Args \in {<<Flag_v>>, <<Flag_version>>} =>
            NothingStarted /\ stdout = <<VERSION>> /\ exitCode = Some(0)
        /\ Len(Args) # 1 =>
            NothingStarted /\ stderr = <<ERROR_HELP>> /\ exitCode = Some(1)

\* C9 as amended: an argument that is not Unicode prints "Error: <argument>"
\* to standard error and exits 1; otherwise a first argument -h or --help
\* prints the usage and exits 0 and a first argument -v or --version prints
\* name and version and exits 0, whatever follows; otherwise any argument
\* count other than exactly one prints the usage error to standard error and
\* exits 1; in all these cases nothing is loaded, detected or launched.
C9_FlagFirstThenCount ==
    pc # "start" =>
        IF \E i \in DOMAIN argv : ~IsUnicode(argv[i])
        THEN /\ NothingStarted
             /\ exitCode = Some(1)
             /\ stdout = <<>>
             /\ \E i \in DOMAIN argv :
                    /\ ~IsUnicode(argv[i])
                    /\ \A j \in 1..(i-1) : IsUnicode(argv[j])
                    /\ stderr = <<Printed("Error: {:?}", <<argv[i]>>)>>
        ELSE IF Args # <<>> /\ Args[1] \in {Flag_h, Flag_help}
        THEN NothingStarted /\ stdout = <<HELP>> /\ stderr = <<>> /\ exitCode = Some(0)
        ELSE IF Args # <<>> /\ Args[1] \in {Flag_v, Flag_version}
        THEN NothingStarted /\ stdout = <<VERSION>> /\ stderr = <<>> /\ exitCode = Some(0)
        ELSE IF Len(Args) # 1
        THEN NothingStarted /\ stdout = <<>> /\ stderr = <<ERROR_HELP>> /\ exitCode = Some(1)
        ELSE cli = Some([file |-> Args[1]])

\* "uf -h a.txt" has printed the usage and exited 0
W9_HelpWithExtraArgument ==
    /\ argv = <<ProgramName, Flag_h, P_a_txt>>
    /\ pc = "exited"
    /\ stdout = <<HELP>>
    /\ exitCode = Some(0)

\* C10: with a FILE argument the steps are config load, MIME detection and
\* program launch in this order, each at most once; the detection only after
\* a config was loaded, the launch only after a program was resolved, of that
\* program on the file; a failure at a step ends the invocation with the
\* failure status and no later step; the invocation ends with the process
\* replaced or with the failure status, never with the success status.
C10_PipelineOrder ==
    cli.some =>
        /\ StepNames \in {<<>>, <<"load">>, <<"load", "detect">>, <<"load", "detect", "exec">>}
        /\ Len(trace) >= 1 <=> loadResult.some
        /\ Len(trace) >= 2 <=> getResult.some
        /\ Len(trace) >= 2 => loadResult.v.ok
        /\ Len(trace) >= 3 =>
            getResult.v.ok /\ trace[3].args = <<getResult.v.val, cli.v.file>>
        /\ (loadResult.some /\ ~loadResult.v.ok) =>
            Len(trace) = 1 /\ pc \in {"returned", "exited"} /\ runResult = loadResult
        /\ (getResult.some /\ ~getResult.v.ok) =>
            Len(trace) = 2 /\ pc \in {"returned", "exited"} /\ runResult = getResult
        /\ pc = "returned" => ~runResult.v.ok
        /\ pc = "exited" => exitCode = Some(ExitFailure) /\ ~runResult.v.ok
        /\ pc # "exited" => exitCode = None
        /\ pc = "replaced" => Len(trace) = 3 /\ runResult = None
        /\ ~ENABLED Next => pc \in {"replaced", "exited"}

\* the launch of the resolved program failed and the invocation has ended
W10_LaunchFailed ==
    /\ cli.some
    /\ pc = "exited"
    /\ Len(trace) = 3
    /\ runResult = Some(Err(<<OpenFailed, IoError>>))
    /\ exitCode = Some(ExitFailure)

====
